---- MODULE Spec2Model ----
(***************************************************************************)
(* Stroop Lab: the experiment page (src/app/experiment/page.tsx) and the   *)
(* results page (src/unnamed/part_004) as a state machine.  One browser    *)
(* tab: React state of ExperimentPage and of ResultsPage, the              *)
(* startTimeRef, sessionStorage, the browser's timer queue, the route, the *)
(* dialogs and the remote stroop_results table.                            *)
(***************************************************************************)
EXTENDS Integers, Sequences, FiniteSets, TLC

(* ---------------------------------------------------------------- bounds *)
MaxRestarts == 2      \* uuidv4() calls explored (handleRestart invocations)
NumSeeds    == 2      \* outcomes of generateTrials() explored
MaxWrong    == 1      \* leading results of a list for which wrong keys are explored
MaxInFlight == 1      \* unsettled insert requests tracked (older ones never settle)
MaxRows     == 1      \* rows the remote table accepts before every insert fails
MaxClock    == 3      \* readings of the clock, in half milliseconds
MaxTimed    == 1      \* leading trials during which the clock is let move
MaxLen      == 2      \* length of the enumerated result lists

(* ------------------------------------------------------------- constants *)
TOTAL_TRIALS == 20    \* page.tsx:16
TrialCount   == 20    \* length of generateTrials() (spec 4.1)

NoSession == 0        \* null session id / absent storage key
NoItem    == {}       \* sessionStorage.getItem(key) === null

ColorKeys == {"red", "green", "yellow"}
WORDS == <<"red", "green", "yellow">>

COLORS == [w \in ColorKeys |->
             CASE w = "red"    -> "#f43f5e"
               [] w = "green"  -> "#34d399"
               [] w = "yellow" -> "#fbbf24"]

VARIABLES
  route,         \* "experiment" | "home" | "results"
  mounted,       \* the mount effect of ExperimentPage has run
  sessionId,     \* useState<string | null>
  trials,        \* useState<Trial[]>
  currentIndex,  \* useState(0)
  isWaiting,     \* useState(false)
  results,       \* useState<TrialResult[]>
  startTime,     \* startTimeRef.current
  storage,       \* sessionStorage: [stroop_session_id, stroop_results]
  timers,        \* pending setTimeout callbacks, in firing order
  now,           \* the clock read by getTimestamp()
  nextUuid,      \* next value uuidv4() returns
  inFlight,      \* insert requests whose promise has not settled
  remote,        \* stroop_results table: rows per session_id
  lastCall,      \* the handler that ran last
  thrown,        \* an exception escaped a handler
  resMounted,    \* the load effect of ResultsPage has run
  resSessionId,  \* ResultsPage: useState<string | null>
  summary,       \* ResultsPage: useState<ResultsSummary | null>
  isClearing,    \* ResultsPage: useState(false)
  deleteReq,     \* delete requests whose promise has not settled
  confirmAnswer, \* what window.confirm returned in the last handler
  notice,        \* the last alert() shown
  lastReply,     \* how the delete request that settled last ended
  shownBefore,   \* the summary on display when the page was last reloaded
  chart,         \* the per-category breakdown the results chart shows
  expectedStats, \* what calculateExpectedStats returned to the statistics test
  secondAnswer,  \* what the second window.confirm of the last handler returned
  deleteAllReq,  \* an unrestricted delete request has not settled
  onsetOf,       \* the session and trial index startTimeRef was captured for
  peer,          \* the tab of a second browser context, while the other runs
  retired,       \* the session ids "Try Again" has put an end to
  issued         \* inserts the page has issued under the session id it holds

\* state of ResultsPage and of its dialogs
resVars == <<resMounted, resSessionId, summary, isClearing, deleteReq,
             confirmAnswer, notice, lastReply, shownBefore, chart,
             expectedStats, secondAnswer, deleteAllReq>>

vars == <<route, mounted, sessionId, trials, currentIndex, isWaiting, results,
          startTime, onsetOf, issued, peer, retired, storage, timers, now, nextUuid, inFlight, remote,
          lastCall, thrown, resMounted, resSessionId, summary, isClearing,
          deleteReq, confirmAnswer, notice, lastReply, shownBefore, chart,
          expectedStats, secondAnswer, deleteAllReq>>

(* ------------------------------------------------------- lib/experiment *)
Steps == <<7, 11, 13, 17, 19, 3, 9>>     \* units modulo TrialCount

Perm(seed, p) ==
  (((p - 1) * Steps[((seed - 1) % Len(Steps)) + 1] + seed) % TrialCount) + 1

WordIndex(k) == ((k - 1) % 3) + 1

BaseTrial(seed, k) ==
  LET w == WordIndex(k)
      congruent == k <= TrialCount \div 2
      c == IF congruent THEN w
           ELSE ((w - 1 + 1 + ((k + seed) % 2)) % 3) + 1
  IN [id |-> k, wordText |-> WORDS[w], fontColor |-> COLORS[WORDS[c]],
      isCongruent |-> congruent]

generateTrials(seed) == [p \in 1..TrialCount |-> BaseTrial(seed, Perm(seed, p))]

isCorrectResponse(trial, response) == COLORS[response] = trial.fontColor

(* ----------------------------------------------------------- lib/timing *)
\* performance.now(), in half milliseconds
getTimestamp == now

\* the elapsed time in whole milliseconds: rounded to the nearest one (a half
\* rounds up) and never below zero
calculateReactionTime(start) ==
  LET elapsed == getTimestamp - start
  IN  IF elapsed < 0 THEN 0 ELSE (elapsed + 1) \div 2

(* ------------------------------------------------------------ JSON text *)
JSONstringify(v) == [text |-> "json", value |-> v]

(* ------------------------------------------------------------- helpers *)
SessionIds == 1..(MaxRestarts + 1)

Last(s) == s[Len(s)]

RowCount == LET RECURSIVE Sum(_)
                Sum(S) == IF S = {} THEN 0
                          ELSE LET x == CHOOSE y \in S : TRUE
                               IN remote[x] + Sum(S \ {x})
            IN Sum(DOMAIN remote)

\* useEffect(..., [currentIndex, trials.length, isWaiting]): runs after a
\* render in which a dependency changed; captures the onset when a trial shows.
OnsetEffect(newIndex, newTrials, newWaiting) ==
  IF /\ <<newIndex, Len(newTrials), newWaiting>>
          # <<currentIndex, Len(trials), isWaiting>>
     /\ Len(newTrials) > 0 /\ newIndex < Len(newTrials) /\ ~newWaiting
  THEN getTimestamp
  ELSE startTime

\* what the onset effect captured its timestamp for: changed exactly when
\* OnsetEffect reads the clock
OnsetTag(newIndex, newTrials, newWaiting, sid) ==
  IF /\ <<newIndex, Len(newTrials), newWaiting>>
          # <<currentIndex, Len(trials), isWaiting>>
     /\ Len(newTrials) > 0 /\ newIndex < Len(newTrials) /\ ~newWaiting
  THEN [sid |-> sid, idx |-> newIndex]
  ELSE onsetOf

\* supabase.from('stroop_results').insert(result): the request is in flight
\* until its promise settles; only the MaxInFlight latest are followed.
IssueInsert(rows) ==
  LET q == inFlight \o rows
  IN IF Len(q) > MaxInFlight
     THEN SubSeq(q, Len(q) - MaxInFlight + 1, Len(q)) ELSE q

\* a handler that sends the row again after a first attempt
InsertedRows_Retried(result) == <<result, result>>

\* the rows handleResponse inserts for a result, page.tsx 77-81: the one
\* insert(result), not awaited and not retried
InsertedRows(result) == <<result>>

(* ---------------------------------------------------------------- Init *)
\* useRef<number>(0): nothing captured yet
NoOnset == [sid |-> NoSession, idx |-> 0]

\* no second browser context is open
NoPeer == [id |-> 2, route |-> "closed"]

NoSummary == {}       \* summary === null

\* ResultsPage before its load effect, part_004 36-39
ResultsPageInit ==
  /\ resMounted = FALSE
  /\ resSessionId = NoSession
  /\ summary = NoSummary
  /\ isClearing = FALSE
  /\ deleteReq = {}
  /\ confirmAnswer = "none"
  /\ notice = "none"
  /\ lastReply = "none"
  /\ shownBefore = NoSummary
  /\ chart = {}
  /\ expectedStats = {}
  /\ secondAnswer = "none"
  /\ deleteAllReq = {}
  /\ retired = {}

Init ==
  /\ route = "experiment"
  /\ mounted = FALSE
  /\ sessionId = NoSession
  /\ trials = <<>>
  /\ currentIndex = 0
  /\ isWaiting = FALSE
  /\ results = <<>>
  /\ issued = 0
  /\ startTime = 0
  /\ onsetOf = NoOnset
  /\ peer = NoPeer
  /\ \E sid \in {NoSession, 1} :
       storage = [stroop_session_id |-> sid, stroop_results |-> NoItem]
  /\ timers = <<>>
  /\ now = 0
  /\ nextUuid = 2
  /\ inFlight = <<>>
  /\ remote = [s \in SessionIds |-> 0]
  /\ lastCall = "none"
  /\ thrown = FALSE
  /\ ResultsPageInit

(* -------------------------------------------------------------- actions *)
\* a setter that keeps the trials it had in front of the new ones
setTrials_KeepsOld(prev, generated) == prev \o generated

\* setTrials(generateTrials()), page.tsx 34 and 48: the state is replaced
setTrials(prev, generated) == generated

\* the mount effect without the return that follows router.push('/')
MountEffect_NoReturn ==
  /\ UNCHANGED resVars
  /\ route = "experiment" /\ ~mounted
  /\ mounted' = TRUE
  /\ lastCall' = "mountEffect"
  /\ route' = IF storage.stroop_session_id = NoSession THEN "home" ELSE route
  /\ sessionId' = storage.stroop_session_id
  /\ \E seed \in 1..NumSeeds :
       /\ trials' = setTrials(trials, generateTrials(seed))
       /\ startTime' = OnsetEffect(currentIndex, trials', isWaiting)
       /\ onsetOf' = OnsetTag(currentIndex, trials', isWaiting,
                            storage.stroop_session_id)
  /\ UNCHANGED <<currentIndex, isWaiting, results, issued, storage, timers, now,
                 nextUuid, inFlight, remote, thrown>>
  /\ UNCHANGED <<peer, retired>>

\* mount effect, page.tsx 28-36
MountEffect ==
  /\ UNCHANGED resVars
  /\ route = "experiment" /\ ~mounted
  /\ mounted' = TRUE
  /\ lastCall' = "mountEffect"
  /\ IF storage.stroop_session_id = NoSession
     THEN /\ route' = "home"
          /\ UNCHANGED <<sessionId, trials, startTime, onsetOf>>
     ELSE /\ sessionId' = storage.stroop_session_id
          /\ \E seed \in 1..NumSeeds :
               /\ trials' = setTrials(trials, generateTrials(seed))
               /\ startTime' = OnsetEffect(currentIndex, trials', isWaiting)
               /\ onsetOf' = OnsetTag(currentIndex, trials', isWaiting,
                                    storage.stroop_session_id)
          /\ UNCHANGED route
  /\ UNCHANGED <<currentIndex, isWaiting, results, issued, storage, timers, now,
                 nextUuid, inFlight, remote, thrown>>
  /\ UNCHANGED <<peer, retired>>

\* a restart that writes the new session id where every context reads it
handleRestart_SharedStorage ==
  /\ route = "experiment" /\ sessionId # NoSession /\ Len(trials) > 0
  /\ nextUuid <= MaxRestarts + 1
  /\ nextUuid' = nextUuid + 1
  /\ storage' = [storage EXCEPT !.stroop_session_id = nextUuid]
  /\ sessionId' = nextUuid
  /\ \E seed \in 1..NumSeeds : trials' = setTrials(trials, generateTrials(seed))
  /\ currentIndex' = 0
  /\ results' = <<>>
  /\ issued' = 0
  /\ isWaiting' = FALSE
  /\ startTime' = OnsetEffect(0, trials', FALSE)
  /\ onsetOf' = OnsetTag(0, trials', FALSE, sessionId')
  /\ lastCall' = "handleRestart"
  /\ peer' = IF peer = NoPeer THEN peer
             ELSE [peer EXCEPT !.storage.stroop_session_id = nextUuid]
  /\ UNCHANGED <<route, mounted, timers, now, inFlight, remote, thrown,
                 resVars, retired>>

\* handleRestart, page.tsx 44-52
handleRestart ==
  /\ UNCHANGED resVars
  /\ route = "experiment" /\ sessionId # NoSession /\ Len(trials) > 0
  /\ nextUuid <= MaxRestarts + 1
  /\ LET newSessionId == nextUuid IN
       /\ nextUuid' = nextUuid + 1
       /\ storage' = [storage EXCEPT !.stroop_session_id = newSessionId]
       /\ sessionId' = newSessionId
  /\ \E seed \in 1..NumSeeds : trials' = setTrials(trials, generateTrials(seed))
  /\ currentIndex' = 0
  /\ results' = <<>>
  /\ issued' = 0
  /\ isWaiting' = FALSE
  /\ startTime' = OnsetEffect(0, trials', FALSE)
  /\ onsetOf' = OnsetTag(0, trials', FALSE, sessionId')
  /\ lastCall' = "handleRestart"
  /\ UNCHANGED <<route, mounted, timers, now, inFlight, remote, thrown>>
  /\ UNCHANGED <<peer, retired>>

\* a result whose is_correct compares the answer with the printed word
TrialResultOf_JudgesWord(sid, currentTrial, reactionTime, response, correct) ==
  [session_id |-> sid,
   word_text |-> currentTrial.wordText,
   font_color |-> currentTrial.fontColor,
   is_congruent |-> currentTrial.isCongruent,
   reaction_time_ms |-> reactionTime,
   user_response |-> response,
   is_correct |-> (response = currentTrial.wordText)]

\* a result whose is_congruent is taken from the judgement of the answer
TrialResultOf_CongruentFromAnswer(sid, currentTrial, reactionTime, response, correct) ==
  [session_id |-> sid,
   word_text |-> currentTrial.wordText,
   font_color |-> currentTrial.fontColor,
   is_congruent |-> correct,
   reaction_time_ms |-> reactionTime,
   user_response |-> response,
   is_correct |-> correct]

\* a result that records the raw difference of the two clock readings
TrialResultOf_RawElapsed(sid, currentTrial, reactionTime, response, correct) ==
  [session_id |-> sid,
   word_text |-> currentTrial.wordText,
   font_color |-> currentTrial.fontColor,
   is_congruent |-> currentTrial.isCongruent,
   reaction_time_ms |-> getTimestamp - startTime,
   user_response |-> response,
   is_correct |-> correct]

\* const result: TrialResult = {...}, page.tsx 62-70
TrialResultOf(sid, currentTrial, reactionTime, response, correct) ==
  [session_id |-> sid,
   word_text |-> currentTrial.wordText,
   font_color |-> currentTrial.fontColor,
   is_congruent |-> currentTrial.isCongruent,
   reaction_time_ms |-> reactionTime,
   user_response |-> response,
   is_correct |-> correct]

\* a completion test that is late by one
IsLastTrial_OffByOne(index) == index >= TOTAL_TRIALS

\* if (currentIndex + 1 >= TOTAL_TRIALS), page.tsx 86
IsLastTrial(index) == index + 1 >= TOTAL_TRIALS

\* a list that keeps only the newest result
AppendResult_Replaces(prev, result) == <<result>>

\* const newResults = [...results, result], page.tsx 73
AppendResult(prev, result) == Append(prev, result)

\* the early return without its re-entrancy test
ResponseIgnored_NoWaitingTest == sessionId = NoSession \/ currentIndex >= Len(trials)

\* the early return of handleResponse, page.tsx 56
ResponseIgnored == isWaiting \/ sessionId = NoSession \/ currentIndex >= Len(trials)

\* handleResponse, page.tsx 54-101
handleResponse(response) ==
  /\ UNCHANGED resVars
  /\ route = "experiment"
  /\ lastCall' = "handleResponse"
  /\ IF ResponseIgnored
     THEN UNCHANGED <<route, mounted, sessionId, trials, currentIndex,
                      isWaiting, results, issued, startTime, onsetOf, storage, timers, now,
                      nextUuid, inFlight, remote, thrown>>
     ELSE IF currentIndex + 1 > Len(trials)
     THEN \* trials[currentIndex] is undefined: reading .wordText throws
          /\ thrown' = TRUE
          /\ UNCHANGED <<route, mounted, sessionId, trials, currentIndex,
                         isWaiting, results, issued, startTime, onsetOf, storage, timers, now,
                         nextUuid, inFlight, remote>>
     ELSE
       LET reactionTime == calculateReactionTime(startTime)
           currentTrial == trials[currentIndex + 1]
           correct == isCorrectResponse(currentTrial, response)
           result == TrialResultOf(sessionId, currentTrial, reactionTime,
                                   response, correct)
           newResults == AppendResult(results, result)
       IN /\ correct \/ Len(results) < MaxWrong
          /\ results' = newResults
          /\ inFlight' = IssueInsert(InsertedRows(result))
          /\ issued' = issued + Len(InsertedRows(result))
          /\ isWaiting' = TRUE
          /\ startTime' = OnsetEffect(currentIndex, trials, TRUE)
          /\ onsetOf' = OnsetTag(currentIndex, trials, TRUE, sessionId)
          /\ IF IsLastTrial(currentIndex)
             THEN /\ storage' = [storage EXCEPT
                                   !.stroop_results = {JSONstringify(newResults)}]
                  /\ timers' = Append(timers, [kind |-> "navigate",
                                 sid |-> sessionId, idx |-> currentIndex])
             ELSE /\ timers' = Append(timers, [kind |-> "advance",
                                 sid |-> sessionId, idx |-> currentIndex])
                  /\ UNCHANGED storage
          /\ UNCHANGED <<route, mounted, sessionId, trials, currentIndex, now,
                         nextUuid, remote, thrown>>
  /\ UNCHANGED <<peer, retired>>

\* the timer callback without setIsWaiting(false)
TimerFires_KeepsWaiting ==
  /\ UNCHANGED resVars
  /\ timers # <<>>
  /\ timers' = Tail(timers)
  /\ lastCall' = "timer"
  /\ LET t == Head(timers) IN
       IF t.kind = "navigate"
       THEN /\ route' = "results"
            /\ UNCHANGED <<currentIndex, startTime, onsetOf>>
       ELSE IF route = "experiment"
       THEN /\ currentIndex' = currentIndex + 1
            /\ startTime' = OnsetEffect(currentIndex + 1, trials, isWaiting)
            /\ onsetOf' = OnsetTag(currentIndex + 1, trials, isWaiting,
                                 sessionId)
            /\ UNCHANGED route
       ELSE UNCHANGED <<route, currentIndex, startTime, onsetOf>>
  /\ UNCHANGED <<mounted, sessionId, trials, results, issued, storage, now, nextUuid,
                 inFlight, remote, thrown, isWaiting>>
  /\ UNCHANGED <<peer, retired>>

\* a setTimeout callback runs, page.tsx 89-91 and 94-97; callbacks with the
\* same delay run in the order they were scheduled
TimerFires ==
  /\ UNCHANGED resVars
  /\ timers # <<>>
  /\ timers' = Tail(timers)
  /\ lastCall' = "timer"
  /\ LET t == Head(timers) IN
       IF t.kind = "navigate"
       THEN /\ route' = "results"
            /\ UNCHANGED <<currentIndex, isWaiting, startTime, onsetOf>>
       ELSE IF route = "experiment"
       THEN /\ currentIndex' = currentIndex + 1
            /\ isWaiting' = FALSE
            /\ startTime' = OnsetEffect(currentIndex + 1, trials, FALSE)
            /\ onsetOf' = OnsetTag(currentIndex + 1, trials, FALSE, sessionId)
            /\ UNCHANGED route
       ELSE \* state updates of an unmounted component are dropped
            UNCHANGED <<route, currentIndex, isWaiting, startTime, onsetOf>>
  /\ UNCHANGED <<mounted, sessionId, trials, results, issued, storage, now, nextUuid,
                 inFlight, remote, thrown>>
  /\ UNCHANGED <<peer, retired>>

\* the clock moves between two events; nothing obliges it to move forward
Tick ==
  /\ currentIndex < MaxTimed /\ Len(results) < MaxTimed
  /\ \E t \in 0..MaxClock : t # now /\ now' = t
  /\ lastCall' = "tick"
  /\ UNCHANGED <<route, mounted, sessionId, trials, currentIndex, isWaiting,
                 results, issued, startTime, onsetOf, storage, timers, nextUuid, inFlight,
                 remote, thrown, resVars>>
  /\ UNCHANGED <<peer, retired>>

\* what one browser context holds of the experiment: the page's React state
\* and ref, its sessionStorage, its timer queue and its route
TabState ==
  [route |-> route, mounted |-> mounted, sessionId |-> sessionId,
   trials |-> trials, currentIndex |-> currentIndex, isWaiting |-> isWaiting,
   results |-> results, startTime |-> startTime, onsetOf |-> onsetOf,
   issued |-> issued,
   storage |-> storage, timers |-> timers]

Parked(tab) == [f \in DOMAIN tab \ {"id"} |-> tab[f]]

\* the other browser context gets to run: the running one is set aside as it
\* is and the parked one continues from where it was left (part_000 181-241
\* drives two contexts in turn)
SwitchTab ==
  /\ peer # NoPeer
  /\ peer' = [f \in DOMAIN peer |->
                IF f = "id" THEN 3 - peer.id ELSE TabState[f]]
  /\ route' = peer.route
  /\ mounted' = peer.mounted
  /\ sessionId' = peer.sessionId
  /\ trials' = peer.trials
  /\ currentIndex' = peer.currentIndex
  /\ isWaiting' = peer.isWaiting
  /\ results' = peer.results
  /\ issued' = peer.issued
  /\ startTime' = peer.startTime
  /\ onsetOf' = peer.onsetOf
  /\ storage' = peer.storage
  /\ timers' = peer.timers
  /\ UNCHANGED <<now, nextUuid, inFlight, remote, lastCall, thrown, resVars,
                 retired>>

\* the insert awaited: the wait flag is cleared when the promise settles
InsertSettles_EndsWait ==
  /\ UNCHANGED resVars
  /\ inFlight # <<>>
  /\ inFlight' = Tail(inFlight)
  /\ lastCall' = "insertCallback"
  /\ isWaiting' = FALSE
  /\ \E ok \in BOOLEAN :
       IF ok
       THEN /\ RowCount < MaxRows
            /\ remote' = [remote EXCEPT ![Head(inFlight).session_id] = @ + 1]
       ELSE UNCHANGED remote
  /\ UNCHANGED <<route, mounted, sessionId, trials, currentIndex,
                 results, issued, startTime, onsetOf, storage, timers, now, nextUuid, thrown>>
  /\ UNCHANGED <<peer, retired>>

\* the promise of an insert settles, page.tsx 77-81
InsertSettles ==
  /\ UNCHANGED resVars
  /\ inFlight # <<>>
  /\ inFlight' = Tail(inFlight)
  /\ lastCall' = "insertCallback"
  /\ \E ok \in BOOLEAN :
       IF ok
       THEN /\ RowCount < MaxRows
            /\ remote' = [remote EXCEPT ![Head(inFlight).session_id] = @ + 1]
       ELSE \* console.error('Failed to save result:', error)
            UNCHANGED remote
  /\ UNCHANGED <<route, mounted, sessionId, trials, currentIndex, isWaiting,
                 results, issued, startTime, onsetOf, storage, timers, now, nextUuid, thrown>>
  /\ UNCHANGED <<peer, retired>>

(* ------------------------------------------------------------ JS numbers *)
\* The numbers the aggregation produces: the exact ratio n/d in lowest terms
\* with d > 0, or NaN, written with d = 0 (the only division by zero in the
\* code is 0 / 0).
NaN == [n |-> 0, d |-> 0]

Num(i) == [n |-> i, d |-> 1]

IsNaN(x) == x.d = 0

\* a / b for an integer a and a natural b
Div(a, b) ==
  LET RECURSIVE GCD(_, _)
      GCD(x, y) == IF y = 0 THEN x ELSE GCD(y, x % y)
      g == GCD(IF a < 0 THEN -a ELSE a, b)
  IN  IF b = 0 THEN NaN ELSE [n |-> a \div g, d |-> b \div g]

\* x - y
Minus(x, y) ==
  IF IsNaN(x) \/ IsNaN(y) THEN NaN
  ELSE Div(x.n * y.d - y.n * x.d, x.d * y.d)

\* x * k for an integer k > 0
Times(x, k) == IF IsNaN(x) THEN NaN ELSE Div(x.n * k, x.d)

\* Math.round: the nearest integer, a half rounded up; NaN stays NaN
MathRound(x) ==
  IF IsNaN(x) THEN NaN ELSE Num((2 * x.n + x.d) \div (2 * x.d))

(* ------------------------------------------------------------ aggregation *)
\* r[f] is present and true (a missing property reads as undefined)
Truthy(r, f) == f \in DOMAIN r /\ r[f] = TRUE

\* kept.map((r) => r.reaction_time_ms)
TimesOf(kept) == [i \in 1..Len(kept) |-> kept[i].reaction_time_ms]

\* lib/timing calculateAverage: the mean, 0 for an empty list (spec 4.4)
calculateAverage(times) ==
  LET RECURSIVE Sum(_)
      Sum(i) == IF i = 0 THEN 0 ELSE times[i] + Sum(i - 1)
  IN  IF Len(times) = 0 THEN Num(0) ELSE Div(Sum(Len(times)), Len(times))

congruentTimes_CountsErrors(list) ==
  TimesOf(SelectSeq(list, LAMBDA r : Truthy(r, "is_congruent")))

\* part_004 13-15
congruentTimes(list) ==
  TimesOf(SelectSeq(list, LAMBDA r : Truthy(r, "is_congruent") /\ Truthy(r, "is_correct")))

\* part_004 17-19
incongruentTimes(list) ==
  TimesOf(SelectSeq(list, LAMBDA r : ~Truthy(r, "is_congruent") /\ Truthy(r, "is_correct")))

\* part_004 23
correctTrials(list) == Len(SelectSeq(list, LAMBDA r : Truthy(r, "is_correct")))

stroopEffect_Clamped(incongruentAvg, congruentAvg) ==
  IF Minus(incongruentAvg, congruentAvg).n < 0 THEN Num(0)
  ELSE Minus(incongruentAvg, congruentAvg)

\* part_004 28
stroopEffect(incongruentAvg, congruentAvg) == Minus(incongruentAvg, congruentAvg)

accuracy_ErrorsNotCounted(list) ==
  Times(Div(correctTrials(list), correctTrials(list)), 100)

\* part_004 31
accuracy(list) == Times(Div(correctTrials(list), Len(list)), 100)

\* part_004 12-33
calculateSummary(list) ==
  LET congruentAvg == calculateAverage(congruentTimes(list))
      incongruentAvg == calculateAverage(incongruentTimes(list))
  IN  [congruentAvg |-> congruentAvg,
       incongruentAvg |-> incongruentAvg,
       stroopEffect |-> stroopEffect(incongruentAvg, congruentAvg),
       totalTrials |-> Len(list),
       correctTrials |-> correctTrials(list),
       accuracy |-> accuracy(list)]

(* ------------------------------------------------------ stored snapshots *)
\* What sessionStorage holds under stroop_results is a text.  item.text names
\* what the text is: "json" is the text of a JSON array with the elements
\* item.value, "null", "object" and "number" are the texts of other JSON
\* values, "garbage" is no JSON at all and "empty" is the empty string.
NullElem == [isNull |-> TRUE]         \* the element null
EmptyObject == [x \in {} |-> TRUE]    \* the element {}

OtherText(kind) == [text |-> kind, value |-> <<>>]

\* !storedResults
Falsy(item) == item = NoItem \/ \E i \in item : i.text = "empty"

\* JSON.parse(text) throws a SyntaxError
ParseThrows(i) == i.text = "garbage"

\* calculateSummary(JSON.parse(text)) throws a TypeError: the value has no
\* filter method, or a property of null is read
SummaryThrows(i) ==
  \/ i.text # "json"
  \/ \E k \in 1..Len(i.value) : "isNull" \in DOMAIN i.value[k]

(* ----------------------------------------------------------- results page *)
\* React state and ref of ExperimentPage
expVars == <<mounted, sessionId, trials, currentIndex, isWaiting, results,
             startTime, onsetOf, issued>>

ResultsLoadEffect_ConsumesSnapshot ==
  /\ route = "results" /\ ~resMounted
  /\ resMounted' = TRUE
  /\ lastCall' = "resultsLoadEffect"
  /\ storage' = [storage EXCEPT !.stroop_results = NoItem]
  /\ IF Falsy(storage.stroop_results)
     THEN /\ route' = "home"
          /\ UNCHANGED <<resSessionId, summary>>
     ELSE LET storedResults == CHOOSE i \in storage.stroop_results : TRUE
          IN  /\ resSessionId' = storage.stroop_session_id
              /\ IF ParseThrows(storedResults) \/ SummaryThrows(storedResults)
                 THEN /\ route' = "home"
                      /\ UNCHANGED summary
                 ELSE /\ summary' = {calculateSummary(storedResults.value)}
                      /\ UNCHANGED route
  /\ UNCHANGED <<expVars, timers, now, nextUuid, inFlight, remote,
                 thrown, isClearing, deleteReq, confirmAnswer, notice,
                 lastReply, shownBefore, chart, expectedStats,
                 secondAnswer, deleteAllReq>>
  /\ UNCHANGED <<peer, retired>>

\* the load effect of ResultsPage, part_004 41-57
ResultsLoadEffect ==
  /\ route = "results" /\ ~resMounted
  /\ resMounted' = TRUE
  /\ lastCall' = "resultsLoadEffect"
  /\ IF Falsy(storage.stroop_results)
     THEN \* router.push('/'); return
          /\ route' = "home"
          /\ UNCHANGED <<resSessionId, summary>>
     ELSE LET storedResults == CHOOSE i \in storage.stroop_results : TRUE
          IN  /\ resSessionId' = storage.stroop_session_id
              /\ IF ParseThrows(storedResults) \/ SummaryThrows(storedResults)
                 THEN \* catch { router.push('/') }
                      /\ route' = "home"
                      /\ UNCHANGED summary
                 ELSE /\ summary' = {calculateSummary(storedResults.value)}
                      /\ UNCHANGED route
  /\ UNCHANGED <<expVars, storage, timers, now, nextUuid, inFlight, remote,
                 thrown, isClearing, deleteReq, confirmAnswer, notice,
                 lastReply, shownBefore, chart, expectedStats,
                 secondAnswer, deleteAllReq>>
  /\ UNCHANGED <<peer, retired>>

\* the browser reloads the results page: the component starts again from its
\* initial state, timers and promise callbacks of the old document are gone,
\* requests already sent still reach the server
Reload ==
  /\ route = "results" /\ resMounted
  /\ resMounted' = FALSE
  /\ resSessionId' = NoSession
  /\ summary' = NoSummary
  /\ isClearing' = FALSE
  /\ deleteReq' = {[r EXCEPT !.orphan = TRUE] : r \in deleteReq}
  /\ timers' = <<>>
  /\ shownBefore' = summary
  /\ chart' = {}
  /\ deleteAllReq' = {[r EXCEPT !.orphan = TRUE] : r \in deleteAllReq}
  /\ lastCall' = "reload"
  /\ UNCHANGED <<route, expVars, storage, now, nextUuid, inFlight, remote,
                 thrown, confirmAnswer, notice, lastReply, expectedStats,
                 secondAnswer>>
  /\ UNCHANGED <<peer, retired>>

\* a "Try Again" that forgets to remove the stored results
ResultsPage_handleRestart_KeepsResults ==
  /\ route = "results" /\ summary # NoSummary
  /\ storage' = [storage EXCEPT !.stroop_session_id = NoSession]
  /\ route' = "home"
  /\ retired' = retired \cup ({storage.stroop_session_id} \ {NoSession})
  /\ lastCall' = "resultsHandleRestart"
  /\ UNCHANGED <<expVars, timers, now, nextUuid, inFlight, remote, thrown,
                 resVars>>
  /\ UNCHANGED peer

\* "Try Again", part_004 59-63; the button exists once a summary is shown
ResultsPage_handleRestart ==
  /\ route = "results" /\ summary # NoSummary
  /\ storage' = [stroop_session_id |-> NoSession, stroop_results |-> NoItem]
  /\ route' = "home"
  /\ retired' = retired \cup ({storage.stroop_session_id} \ {NoSession})
  /\ lastCall' = "resultsHandleRestart"
  /\ UNCHANGED <<expVars, timers, now, nextUuid, inFlight, remote, thrown,
                 resVars>>
  /\ UNCHANGED peer

handleClearResults_NoConfirmTest(confirmed) ==
  /\ route = "results" /\ summary # NoSummary /\ ~isClearing
  /\ lastCall' = "handleClearResults"
  /\ IF resSessionId = NoSession
     THEN /\ confirmAnswer' = "none"
          /\ UNCHANGED <<isClearing, deleteReq>>
     ELSE /\ confirmAnswer' = IF confirmed THEN "accepted" ELSE "dismissed"
          /\ isClearing' = TRUE
          /\ deleteReq' = deleteReq \cup
                            {[session_id |-> resSessionId, orphan |-> FALSE]}
  /\ secondAnswer' = "none"
  /\ UNCHANGED <<route, expVars, storage, timers, now, nextUuid, inFlight,
                 remote, thrown, resMounted, resSessionId, summary, notice,
                 lastReply, shownBefore, chart, expectedStats, deleteAllReq>>
  /\ UNCHANGED <<peer, retired>>

\* the entry page's "Start Experiment": a session id of its own is stored and
\* the experiment page is opened, as a new instance (part_000 196-204)
StartExperiment ==
  /\ route = "home"
  /\ nextUuid <= MaxRestarts + 1
  /\ storage' = [storage EXCEPT !.stroop_session_id = nextUuid]
  /\ nextUuid' = nextUuid + 1
  /\ route' = "experiment"
  /\ mounted' = FALSE /\ sessionId' = NoSession /\ trials' = <<>>
  /\ currentIndex' = 0 /\ isWaiting' = FALSE /\ results' = <<>>
  /\ issued' = 0
  /\ startTime' = 0 /\ onsetOf' = NoOnset
  /\ resMounted' = FALSE /\ resSessionId' = NoSession
  /\ summary' = NoSummary /\ isClearing' = FALSE /\ chart' = {}
  /\ lastCall' = "startExperiment"
  /\ UNCHANGED <<timers, now, inFlight, remote, thrown, deleteReq,
                 confirmAnswer, notice, lastReply, shownBefore, expectedStats,
                 secondAnswer, deleteAllReq, peer, retired>>

\* injectMockResults on the entry page, test-helpers.ts 141-149: the test
\* stores the id and the results of a session it made up
injectMockResults(list) ==
  /\ route = "home"
  /\ nextUuid <= MaxRestarts + 1
  /\ \A k \in 1..Len(list) : list[k].session_id = nextUuid
  /\ storage' = [stroop_session_id |-> nextUuid,
                 stroop_results |-> {JSONstringify(list)}]
  /\ nextUuid' = nextUuid + 1
  /\ lastCall' = "injectMockResults"
  /\ UNCHANGED <<route, expVars, timers, now, inFlight, remote, thrown,
                 resVars, peer, retired>>

\* page.goto(url): the page is loaded anew, so the state of the components
\* and the timers of the page left behind are gone; sessionStorage stays
Goto(url) ==
  /\ route' = url
  /\ mounted' = FALSE /\ sessionId' = NoSession /\ trials' = <<>>
  /\ currentIndex' = 0 /\ isWaiting' = FALSE /\ results' = <<>>
  /\ issued' = 0
  /\ startTime' = 0 /\ onsetOf' = NoOnset
  /\ resMounted' = FALSE /\ resSessionId' = NoSession
  /\ summary' = NoSummary /\ isClearing' = FALSE /\ chart' = {}
  /\ timers' = <<>>
  /\ shownBefore' = summary
  /\ deleteReq' = {[r EXCEPT !.orphan = TRUE] : r \in deleteReq}
  /\ deleteAllReq' = {[r EXCEPT !.orphan = TRUE] : r \in deleteAllReq}
  /\ lastCall' = "goto"
  /\ UNCHANGED <<storage, now, nextUuid, inFlight, remote, thrown,
                 confirmAnswer, notice, lastReply, expectedStats,
                 secondAnswer, peer, retired>>

\* "Clear Results" up to its await, part_004 65-79; the button is disabled
\* while isClearing (part_004 211)
handleClearResults(confirmed) ==
  /\ route = "results" /\ summary # NoSummary /\ ~isClearing
  /\ lastCall' = "handleClearResults"
  /\ IF resSessionId = NoSession
     THEN \* if (!sessionId) return: no dialog is shown
          /\ confirmAnswer' = "none"
          /\ UNCHANGED <<isClearing, deleteReq>>
     ELSE /\ confirmAnswer' = IF confirmed THEN "accepted" ELSE "dismissed"
          /\ IF confirmed
             THEN /\ isClearing' = TRUE
                  /\ deleteReq' = deleteReq \cup
                            {[session_id |-> resSessionId, orphan |-> FALSE]}
             ELSE UNCHANGED <<isClearing, deleteReq>>
  /\ secondAnswer' = "none"
  /\ UNCHANGED <<route, expVars, storage, timers, now, nextUuid, inFlight,
                 remote, thrown, resMounted, resSessionId, summary, notice,
                 lastReply, shownBefore, chart, expectedStats, deleteAllReq>>
  /\ UNCHANGED <<peer, retired>>

\* the handler with its test of error left out
noticeFor_IgnoresError(reply) ==
  IF reply = "rejected" THEN "failed" ELSE "success"

\* the alert of handleClearResults, part_004 81-90
noticeFor(reply) == IF reply = "ok" THEN "success" ELSE "failed"

DeleteSettles_Unfiltered(applied, reply) ==
  /\ (reply = "ok" => applied) /\ (reply = "error" => ~applied)
  /\ \E r \in deleteReq :
       /\ deleteReq' = deleteReq \ {r}
       /\ remote' = IF applied THEN [s \in SessionIds |-> 0] ELSE remote
       /\ IF r.orphan
          THEN UNCHANGED <<notice, isClearing>>
          ELSE /\ notice' = noticeFor(reply)
               /\ isClearing' = IF route = "results" THEN FALSE ELSE isClearing
  /\ lastReply' = reply
  /\ lastCall' = "deleteSettles"
  /\ UNCHANGED <<route, expVars, storage, timers, now, nextUuid, inFlight,
                 thrown, resMounted, resSessionId, summary, confirmAnswer,
                 shownBefore, chart, expectedStats,
                 secondAnswer, deleteAllReq>>
  /\ UNCHANGED <<peer, retired>>

\* The delete request settles, part_004 75-92, and the rest of the handler
\* runs.  reply "ok" is { error: null }, "error" is { error }, "rejected" is a
\* rejected promise; applied says whether the server ran
\* delete().eq('session_id', sid), which a rejected request may or may not
\* have reached.
DeleteSettles(applied, reply) ==
  /\ (reply = "ok" => applied) /\ (reply = "error" => ~applied)
  /\ \E r \in deleteReq :
       /\ deleteReq' = deleteReq \ {r}
       /\ remote' = IF applied THEN [remote EXCEPT ![r.session_id] = 0]
                    ELSE remote
       /\ IF r.orphan
          THEN UNCHANGED <<notice, isClearing>>
          ELSE \* alert(...); finally { setIsClearing(false) }
               /\ notice' = noticeFor(reply)
               /\ isClearing' = IF route = "results" THEN FALSE ELSE isClearing
  /\ lastReply' = reply
  /\ lastCall' = "deleteSettles"
  /\ UNCHANGED <<route, expVars, storage, timers, now, nextUuid, inFlight,
                 thrown, resMounted, resSessionId, summary, confirmAnswer,
                 shownBefore, chart, expectedStats,
                 secondAnswer, deleteAllReq>>
  /\ UNCHANGED <<peer, retired>>

Replies == {"ok", "error", "rejected"}

\* a "Clear All Data" that asks once only
handleClearAllData_SingleConfirm(first, second) ==
  /\ route = "results" /\ summary # NoSummary /\ ~isClearing
  /\ lastCall' = "handleClearAllData"
  /\ confirmAnswer' = IF first THEN "accepted" ELSE "dismissed"
  /\ secondAnswer' = "none"
  /\ IF first
     THEN /\ isClearing' = TRUE
          /\ deleteAllReq' = deleteAllReq \cup {[orphan |-> FALSE]}
     ELSE UNCHANGED <<isClearing, deleteAllReq>>
  /\ UNCHANGED <<route, expVars, storage, timers, now, nextUuid, inFlight,
                 remote, thrown, resMounted, resSessionId, summary, notice,
                 lastReply, shownBefore, chart, expectedStats, deleteReq>>
  /\ UNCHANGED <<peer, retired>>

\* "Clear All Data" up to its request: a first window.confirm, a second one
\* when the first was accepted, and the unrestricted delete when both were
\* (the page that has this button is exercised by part_002 85-134)
handleClearAllData(first, second) ==
  /\ route = "results" /\ summary # NoSummary /\ ~isClearing
  /\ lastCall' = "handleClearAllData"
  /\ confirmAnswer' = IF first THEN "accepted" ELSE "dismissed"
  /\ secondAnswer' = IF ~first THEN "none"
                     ELSE IF second THEN "accepted" ELSE "dismissed"
  /\ IF first /\ second
     THEN /\ isClearing' = TRUE
          /\ deleteAllReq' = deleteAllReq \cup {[orphan |-> FALSE]}
     ELSE UNCHANGED <<isClearing, deleteAllReq>>
  /\ UNCHANGED <<route, expVars, storage, timers, now, nextUuid, inFlight,
                 remote, thrown, resMounted, resSessionId, summary, notice,
                 lastReply, shownBefore, chart, expectedStats, deleteReq>>
  /\ UNCHANGED <<peer, retired>>

\* the unrestricted delete settles: every row goes when the server ran it;
\* a page still shown reports the outcome and leaves for home on success
\* (part_002 118-134)
DeleteAllSettles(reply) ==
  /\ \E r \in deleteAllReq :
       /\ deleteAllReq' = deleteAllReq \ {r}
       /\ remote' = IF reply = "ok" THEN [s \in SessionIds |-> 0] ELSE remote
       /\ IF r.orphan \/ route # "results"
          THEN UNCHANGED <<notice, isClearing, route, storage>>
          ELSE /\ notice' = noticeFor(reply)
               /\ isClearing' = FALSE
               /\ IF reply = "ok"
                  THEN /\ storage' = [stroop_session_id |-> NoSession,
                                      stroop_results |-> NoItem]
                       /\ route' = "home"
                  ELSE UNCHANGED <<route, storage>>
  /\ lastReply' = reply
  /\ lastCall' = "deleteAllSettles"
  /\ UNCHANGED <<expVars, timers, now, nextUuid, inFlight, thrown,
                 resMounted, resSessionId, summary, confirmAnswer,
                 shownBefore, chart, expectedStats, secondAnswer, deleteReq>>
  /\ UNCHANGED <<peer, retired>>

(* ---------------------------------------------- per-category statistics *)
\* times.reduce((sum, t) => sum + t, 0)
SumOf(times) ==
  LET RECURSIVE Sum(_)
      Sum(i) == IF i = 0 THEN 0 ELSE times[i] + Sum(i - 1)
  IN  Sum(Len(times))

\* the per-category breakdown of the results chart (spec 3, 4.4): the mean
\* computation of the summary, filtered additionally by category
categoryBreakdown(list) ==
  [w \in ColorKeys |->
     LET congruentAvg == calculateAverage(TimesOf(SelectSeq(list,
           LAMBDA r : r.word_text = w /\ r.is_congruent /\ r.is_correct)))
         incongruentAvg == calculateAverage(TimesOf(SelectSeq(list,
           LAMBDA r : r.word_text = w /\ ~r.is_congruent /\ r.is_correct)))
     IN  [congruentAvg |-> congruentAvg,
          incongruentAvg |-> incongruentAvg,
          difference |-> Minus(incongruentAvg, congruentAvg)]]

wordStats_AllWords(list) ==
  [word \in ColorKeys |->
     LET wordCongruent ==
           TimesOf(SelectSeq(list, LAMBDA r : r.is_congruent /\ r.is_correct))
         wordIncongruent ==
           TimesOf(SelectSeq(list, LAMBDA r : ~r.is_congruent /\ r.is_correct))
         wCongruentMean ==
           IF Len(wordCongruent) > 0
           THEN Div(SumOf(wordCongruent), Len(wordCongruent)) ELSE Num(0)
         wIncongruentMean ==
           IF Len(wordIncongruent) > 0
           THEN Div(SumOf(wordIncongruent), Len(wordIncongruent)) ELSE Num(0)
     IN  [congruentMean |-> MathRound(wCongruentMean),
          incongruentMean |-> MathRound(wIncongruentMean),
          difference |-> MathRound(Minus(wIncongruentMean, wCongruentMean))]]

\* test-helpers.ts 100-125
wordStats(list) ==
  [word \in ColorKeys |->
     LET wordCongruent ==
           TimesOf(SelectSeq(list, LAMBDA r : r.word_text = word /\ r.is_congruent
                                      /\ r.is_correct))
         wordIncongruent ==
           TimesOf(SelectSeq(list, LAMBDA r : r.word_text = word /\ ~r.is_congruent
                                      /\ r.is_correct))
         wCongruentMean ==
           IF Len(wordCongruent) > 0
           THEN Div(SumOf(wordCongruent), Len(wordCongruent)) ELSE Num(0)
         wIncongruentMean ==
           IF Len(wordIncongruent) > 0
           THEN Div(SumOf(wordIncongruent), Len(wordIncongruent)) ELSE Num(0)
     IN  [congruentMean |-> MathRound(wCongruentMean),
          incongruentMean |-> MathRound(wIncongruentMean),
          difference |-> MathRound(Minus(wIncongruentMean, wCongruentMean))]]

\* test-helpers.ts 88-136
calculateExpectedStats(list) ==
  LET congruentCorrect ==
        TimesOf(SelectSeq(list, LAMBDA r : r.is_congruent /\ r.is_correct))
      incongruentCorrect ==
        TimesOf(SelectSeq(list, LAMBDA r : ~r.is_congruent /\ r.is_correct))
      congruentMean == Div(SumOf(congruentCorrect), Len(congruentCorrect))
      incongruentMean == Div(SumOf(incongruentCorrect), Len(incongruentCorrect))
      correct == Len(SelectSeq(list, LAMBDA r : r.is_correct))
  IN  [congruentMean |-> MathRound(congruentMean),
       incongruentMean |-> MathRound(incongruentMean),
       stroopEffect |-> MathRound(Minus(incongruentMean, congruentMean)),
       accuracy |-> MathRound(Times(Div(correct, Len(list)), 100)),
       totalTrials |-> Len(list),
       correctTrials |-> correct,
       wordStats |-> wordStats(list)]

\* the results chart renders the breakdown of the results on display
ChartRenders ==
  /\ route = "results" /\ summary # NoSummary /\ chart = {}
  /\ chart' = {categoryBreakdown(
                  (CHOOSE i \in storage.stroop_results : TRUE).value)}
  /\ lastCall' = "chartRenders"
  /\ UNCHANGED <<route, expVars, storage, timers, now, nextUuid, inFlight,
                 remote, thrown, resMounted, resSessionId, summary,
                 isClearing, deleteReq, confirmAnswer, notice, lastReply,
                 shownBefore,
                 expectedStats,
                 secondAnswer, deleteAllReq>>
  /\ UNCHANGED <<peer, retired>>

\* the statistics test computes its oracle from the results it injected,
\* part_003 14-29
StatisticsTest ==
  /\ expectedStats = {}
  /\ \E i \in storage.stroop_results :
       expectedStats' = {calculateExpectedStats(i.value)}
  /\ lastCall' = "statisticsTest"
  /\ UNCHANGED <<route, expVars, storage, timers, now, nextUuid, inFlight,
                 remote, thrown, resMounted, resSessionId, summary,
                 isClearing, deleteReq, confirmAnswer, notice, lastReply,
                 shownBefore,
                 chart,
                 secondAnswer, deleteAllReq>>
  /\ UNCHANGED <<peer, retired>>

(* ------------------------------------------------------- stored test data *)
\* one element of generateMockResults, test-helpers.ts 46-80
MockResult(sid, word, congruent, rt, correct) ==
  LET indexOf == CHOOSE i \in 1..3 : WORDS[i] = word
      colorName == WORDS[(indexOf % 3) + 1]
  IN  [session_id |-> sid,
       word_text |-> word,
       font_color |-> IF congruent THEN COLORS[word] ELSE COLORS[colorName],
       is_congruent |-> congruent,
       reaction_time_ms |-> rt,
       user_response |-> IF congruent
                         THEN (IF correct THEN word ELSE colorName)
                         ELSE (IF correct THEN colorName ELSE word),
       is_correct |-> correct]

SampleTimes == {400, 401}     \* reaction times of the enumerated results

SampleResults ==
  {MockResult(1, w, c, rt, ok) :
     w \in ColorKeys, c \in BOOLEAN, rt \in SampleTimes, ok \in BOOLEAN}

ListsUpTo(S, n) == UNION {[1..k -> S] : k \in 0..n}

\* spec 8: ten congruent results, 400..580, all correct
ScenarioMean490 ==
  [i \in 1..10 |-> MockResult(1, WORDS[((i - 1) % 3) + 1], TRUE, 380 + 20 * i, TRUE)]

\* spec 8: ten correct congruent results averaging 400, ten correct
\* incongruent ones averaging 550
ScenarioEffect150 ==
  [i \in 1..20 |->
     IF i <= 10
     THEN MockResult(1, WORDS[((i - 1) % 3) + 1], TRUE,
                     IF i % 2 = 0 THEN 390 ELSE 410, TRUE)
     ELSE MockResult(1, WORDS[((i - 1) % 3) + 1], FALSE,
                     IF i % 2 = 0 THEN 530 ELSE 570, TRUE)]

\* spec 8: five correct and five incorrect results
ScenarioHalfCorrect ==
  [i \in 1..10 |-> MockResult(1, WORDS[((i - 1) % 3) + 1], i % 3 = 0, 500, i % 2 = 0)]

Scenarios == {ScenarioMean490, ScenarioEffect150, ScenarioHalfCorrect}

\* a tab opened on /results: neither page has run an effect yet
ResultsTab ==
  /\ route = "results"
  /\ mounted = FALSE
  /\ sessionId = NoSession
  /\ trials = <<>>
  /\ currentIndex = 0
  /\ isWaiting = FALSE
  /\ results = <<>>
  /\ issued = 0
  /\ startTime = 0
  /\ onsetOf = NoOnset
  /\ peer = NoPeer
  /\ timers = <<>>
  /\ now = 0
  /\ nextUuid = 2
  /\ inFlight = <<>>
  /\ lastCall = "none"
  /\ thrown = FALSE
  /\ ResultsPageInit

(* --------------------------------------------------------- specifications *)
Next ==
  \/ MountEffect
  \/ handleRestart
  \/ \E response \in ColorKeys : handleResponse(response)
  \/ TimerFires

\* the tab alone: no insert request settles
Spec == Init /\ [][Next]_vars

\* one uninterrupted run: a stored session id, no restart, the user answers
\* every trial shown and the browser runs every timer it has scheduled
InitRun == Init /\ storage.stroop_session_id # NoSession

ResponseAccepted ==
  \E response \in ColorKeys : handleResponse(response) /\ results' # results

NextRun ==
  \/ MountEffect
  \/ \E response \in ColorKeys : handleResponse(response)
  \/ TimerFires

SpecRun ==
  /\ InitRun /\ [][NextRun]_vars
  /\ WF_vars(MountEffect) /\ WF_vars(ResponseAccepted) /\ WF_vars(TimerFires)

\* the first MaxTimed trials of a session and of the one that a restart puts
\* in its place, next to a clock that is read at onsets and at responses
NextClock ==
  \/ MountEffect
  \/ sessionId = 1 /\ handleRestart
  \/ \E response \in ColorKeys :
       currentIndex < MaxTimed /\ handleResponse(response)
  \/ TimerFires
  \/ Tick

SpecClock == InitRun /\ [][NextClock]_vars

\* two users, each in a browser context of their own, both sent to
\* /experiment by the entry page with a session id of their own
InitTwo ==
  /\ route = "experiment"
  /\ mounted = FALSE
  /\ sessionId = NoSession
  /\ trials = <<>>
  /\ currentIndex = 0
  /\ isWaiting = FALSE
  /\ results = <<>>
  /\ issued = 0
  /\ startTime = 0
  /\ onsetOf = NoOnset
  /\ storage = [stroop_session_id |-> 1, stroop_results |-> NoItem]
  /\ timers = <<>>
  /\ peer = [f \in DOMAIN TabState \cup {"id"} |->
               IF f = "id" THEN 2
               ELSE IF f = "storage"
               THEN [stroop_session_id |-> 2, stroop_results |-> NoItem]
               ELSE TabState[f]]
  /\ now = 0
  /\ nextUuid = 3
  /\ inFlight = <<>>
  /\ remote = [s \in SessionIds |-> 0]
  /\ lastCall = "none"
  /\ thrown = FALSE
  /\ ResultsPageInit

\* either context runs its page; each works on the first seed's trials and
\* answers correctly, and the first session restarts once, within its first
\* MaxTimed trials
NextTwo ==
  \/ MountEffect /\ trials' = generateTrials(1)
  \/ /\ sessionId = 1 /\ currentIndex < MaxTimed
     /\ handleRestart /\ trials' = generateTrials(1)
  \/ \E response \in ColorKeys :
       /\ handleResponse(response)
       /\ results' # results => Last(results').is_correct
  \/ TimerFires
  \/ SwitchTab

SpecTwo == InitTwo /\ [][NextTwo]_vars

\* the results a test makes up for the session it injects
MockLists(sid) ==
  {<<MockResult(sid, "red", TRUE, 400, TRUE)>>,
   <<MockResult(sid, "red", TRUE, 400, TRUE),
     MockResult(sid, "green", FALSE, 550, TRUE)>>}

\* the application opened on its entry page with nothing stored
InitApp ==
  /\ route = "home"
  /\ mounted = FALSE
  /\ sessionId = NoSession
  /\ trials = <<>>
  /\ currentIndex = 0
  /\ isWaiting = FALSE
  /\ results = <<>>
  /\ issued = 0
  /\ startTime = 0
  /\ onsetOf = NoOnset
  /\ peer = NoPeer
  /\ storage = [stroop_session_id |-> NoSession, stroop_results |-> NoItem]
  /\ timers = <<>>
  /\ now = 0
  /\ nextUuid = 1
  /\ inFlight = <<>>
  /\ remote = [s \in SessionIds |-> 0]
  /\ lastCall = "none"
  /\ thrown = FALSE
  /\ ResultsPageInit

\* sessions one after the other in one tab: started from the entry page and
\* run on the first seed's trials with correct answers, or injected by a
\* test; pages opened by URL at any moment; "Try Again" on the results page
NextApp ==
  \/ StartExperiment
  \/ \E list \in MockLists(nextUuid) : injectMockResults(list)
  \/ \E url \in {"home", "experiment", "results"} : Goto(url)
  \/ MountEffect /\ (Len(trials') > 0 => trials' = generateTrials(1))
  \/ \E response \in ColorKeys :
       /\ handleResponse(response)
       /\ results' # results => Last(results').is_correct
  \/ TimerFires
  \/ ResultsLoadEffect
  \/ ResultsPage_handleRestart

SpecApp == InitApp /\ [][NextApp]_vars

\* the tab from the experiment to the results view it navigates to
NextFlow == Next \/ ResultsLoadEffect

SpecFlow == Init /\ [][NextFlow]_vars

NextNet == NextRun \/ InsertSettles

\* a run together with the remote sink: insert promises settle, with either
\* outcome, at any later moment or never
SpecNet == Init /\ [][NextNet]_vars

\* the results page opened on a stored snapshot of any enumerated result list
InitSummary ==
  /\ ResultsTab
  /\ \E list \in ListsUpTo(SampleResults, MaxLen) \cup Scenarios :
       storage = [stroop_session_id |-> 1,
                  stroop_results |-> {JSONstringify(list)}]
  /\ remote = [s \in SessionIds |-> 0]

NextSummary == ResultsLoadEffect \/ Reload \/ ChartRenders \/ StatisticsTest

SpecSummary == InitSummary /\ [][NextSummary]_vars

\* what sessionStorage may hold under stroop_results when the page opens
SnapshotLists ==
  LET r1 == MockResult(1, "red", TRUE, 400, TRUE)
      r2 == MockResult(1, "green", FALSE, 550, FALSE)
  IN  {<<>>, <<r1>>, <<r1, r2>>, <<EmptyObject>>, <<NullElem>>,
       <<r1, EmptyObject>>}

SnapshotItems ==
  {NoItem}
    \cup {{OtherText(k)} : k \in {"empty", "garbage", "null", "object", "number"}}
    \cup {{JSONstringify(list)} : list \in SnapshotLists}

\* the results page opened on any stored state, next to any remote table
InitResults ==
  /\ ResultsTab
  /\ \E sid \in {NoSession} \cup SessionIds, item \in SnapshotItems :
       storage = [stroop_session_id |-> sid, stroop_results |-> item]
  /\ remote \in [SessionIds -> 0..MaxRows]

NextResults ==
  \/ ResultsLoadEffect
  \/ Reload
  \/ ResultsPage_handleRestart
  \/ \E confirmed \in BOOLEAN : handleClearResults(confirmed)
  \/ \E applied \in BOOLEAN, reply \in Replies : DeleteSettles(applied, reply)

SpecResults == InitResults /\ [][NextResults]_vars

\* the results page with its "Clear All Data" button, opened on a session's
\* stored results next to an empty or a filled remote table
InitClearAll ==
  /\ ResultsTab
  /\ \E sid \in {NoSession, 1},
        list \in {<<>>, <<MockResult(1, "red", TRUE, 400, TRUE)>>} :
       storage = [stroop_session_id |-> sid,
                  stroop_results |-> {JSONstringify(list)}]
  /\ \E n \in 0..MaxRows : remote = [s \in SessionIds |-> n]

NextClearAll ==
  \/ NextResults
  \/ \E first \in BOOLEAN, second \in BOOLEAN : handleClearAllData(first, second)
  \/ \E reply \in Replies : DeleteAllSettles(reply)

SpecClearAll == InitClearAll /\ [][NextClearAll]_vars

TypeOK ==
  /\ route \in {"experiment", "home", "results"}
  /\ currentIndex \in Nat
  /\ isWaiting \in BOOLEAN
  /\ Len(trials) \in {0, TrialCount}

(* ================================================================ claims *)
InSession == route = "experiment" /\ sessionId # NoSession /\ Len(trials) > 0

\* C1: in every reachable state of an experiment session the number of
\* accumulated results equals currentIndex.  Stated for the states in which no
\* response is being processed (before a response, after a restart, after a
\* timer has fired), where the claim asks least.
C1_ResultsMatchIndex ==
  (InSession /\ ~isWaiting) => Len(results) = currentIndex

\* the same sentence for every state of the session, the inter-trial wait included
C1_ResultsMatchIndexAlways ==
  InSession => Len(results) = currentIndex

\* C2: a call to handleResponse while isWaiting is set, while there is no
\* session id, or while currentIndex >= trials.length changes nothing: results,
\* currentIndex, isWaiting and sessionStorage keep their values, no insert is
\* issued, no timer is scheduled and nothing is thrown.
C2_IgnoredResponseIsNoOp ==
  [][(/\ lastCall' = "handleResponse"
      /\ (isWaiting \/ sessionId = NoSession \/ currentIndex >= Len(trials)))
     => (/\ UNCHANGED <<results, currentIndex, isWaiting, storage>>
         /\ UNCHANGED <<inFlight, timers>>
         /\ ~thrown')]_vars

\* a response was ignored because the index had run past the trial sequence
C2_Witness ==
  /\ lastCall = "handleResponse" /\ InSession
  /\ ~isWaiting /\ currentIndex >= Len(trials)

\* C3: once a response has been accepted, no further response is accepted in
\* that session until the index increment it scheduled has completed: at most
\* one timer scheduled by a response of the current session is pending.
C3_OneTransitionPending ==
  InSession => Cardinality({k \in DOMAIN timers : timers[k].sid = sessionId}) <= 1

\* C4: after handleRestart, in whatever state it is invoked, the session has
\* currentIndex 0, empty results, isWaiting false, a fresh session id and a
\* fresh trial sequence, and nothing in flight from the previous session later
\* changes it: while the new session is idle on its first trial, currentIndex
\* stays 0 and the experiment view stays shown.
C4_RestartDiscardsInFlight ==
  [][/\ (lastCall' = "handleRestart" /\ nextUuid' # nextUuid)
          => /\ currentIndex' = 0 /\ results' = <<>> /\ ~isWaiting'
             /\ sessionId' # sessionId
             /\ storage'.stroop_session_id = sessionId'
             /\ Len(trials') = TrialCount
     /\ (InSession /\ currentIndex = 0 /\ ~isWaiting)
          => (currentIndex' = 0 /\ route' = "experiment")]_vars

\* C5: whenever the experiment navigates to the results view, the snapshot
\* stored under stroop_results holds exactly TOTAL_TRIALS results and its k-th
\* result is the response recorded for the k-th trial of the current sequence.
C5_SnapshotComplete ==
  (route = "results" /\ lastCall = "timer")
    => /\ storage.stroop_results # NoItem
       /\ \A item \in storage.stroop_results :
            /\ Len(item.value) = TOTAL_TRIALS
            /\ \A k \in DOMAIN item.value :
                 /\ k <= Len(trials)
                 /\ item.value[k].word_text = trials[k].wordText
                 /\ item.value[k].font_color = trials[k].fontColor
                 /\ item.value[k].is_congruent = trials[k].isCongruent

\* C6: currentIndex is always an integer in [0, trials.length].
C6_IndexInRange ==
  currentIndex \in 0..Len(trials)

\* C7: an accepted response at index i < trials.length - 1 appends exactly one
\* TrialResult built from trials[i], the current session id and the submitted
\* key, and when the timer it scheduled fires in that session currentIndex
\* becomes i + 1 and the wait flag is cleared.
C7_AcceptThenAdvance ==
  [][/\ (lastCall' = "handleResponse" /\ results' # results
           /\ currentIndex < Len(trials) - 1)
          => /\ Len(results') = Len(results) + 1
             /\ SubSeq(results', 1, Len(results)) = results
             /\ LET r == results'[Len(results')]
                    t == trials[currentIndex + 1]
                IN /\ r.word_text = t.wordText
                   /\ r.font_color = t.fontColor
                   /\ r.is_congruent = t.isCongruent
                   /\ r.session_id = sessionId
                   /\ r.user_response \in ColorKeys
                   /\ r.is_correct = (COLORS[r.user_response] = t.fontColor)
     /\ (/\ lastCall' = "timer" /\ timers' # timers /\ route = "experiment"
         /\ Head(timers).kind = "advance" /\ Head(timers).sid = sessionId)
          => (currentIndex' = Head(timers).idx + 1 /\ ~isWaiting')]_vars

\* C8: the outcome of the per-trial insert (success, error, never settling)
\* has no effect on the session: the step in which the promise settles leaves
\* currentIndex, results, isWaiting, the timers and the stored snapshot as
\* they are, and a response to a displayed trial is accepted whether or not
\* an insert is still in flight.
C8_InsertOutcomeIrrelevant ==
  /\ [][lastCall' = "insertCallback"
          => UNCHANGED <<route, sessionId, trials, currentIndex, isWaiting,
                         results, startTime, storage, timers, thrown>>]_vars
  /\ []((InSession /\ ~isWaiting /\ currentIndex < Len(trials))
          => ENABLED ResponseAccepted)

\* an insert failed during an inter-trial wait
C8_Witness ==
  /\ lastCall = "insertCallback" /\ RowCount = 0
  /\ InSession /\ isWaiting /\ Len(results) > 0

\* C9: from a session with a valid id, when the user answers every displayed
\* trial, never restarts and every timer fires, the session reaches the
\* results view after exactly 20 accepted responses, its index passing
\* through 0, 1, ..., 19 in order.
C9_RunCompletes ==
  /\ <>(route = "results" /\ Len(results) = TOTAL_TRIALS)
  /\ [](route = "results"
          => (Len(results) = TOTAL_TRIALS /\ currentIndex = TOTAL_TRIALS - 1))
  /\ [][/\ currentIndex' # currentIndex =>
             (currentIndex' = currentIndex + 1 /\ Len(results) = currentIndex')
        /\ results' # results => Len(results') = currentIndex + 1]_vars

\* the run has ended on the results view
C9_Witness ==
  route = "results" /\ Len(results) = TOTAL_TRIALS /\ sessionId # NoSession

\* C10: opening the experiment page with no stroop_session_id stored
\* redirects to the entry page: no trial sequence is generated, the session
\* never starts and no response is recorded or inserted.
C10_NoSessionRedirects ==
  (mounted /\ storage.stroop_session_id = NoSession)
    => /\ route = "home"
       /\ sessionId = NoSession /\ trials = <<>>
       /\ results = <<>> /\ timers = <<>> /\ inFlight = <<>> /\ RowCount = 0

\* the page was opened without a session and has redirected
C10_Witness ==
  mounted /\ storage.stroop_session_id = NoSession /\ route = "home"

(* ------------------------------------------------- claims: results page *)
\* the fields of a TrialResult, page.tsx 62-70
ResultFields == {"session_id", "word_text", "font_color", "is_congruent",
                 "reaction_time_ms", "user_response", "is_correct"}

\* the stored text is the JSON text of a list whose elements are results
IsListOfResults(i) ==
  /\ i.text = "json"
  /\ \A k \in 1..Len(i.value) : DOMAIN i.value[k] = ResultFields

\* the load effect has just run
JustLoaded == lastCall = "resultsLoadEffect"

\* C11: when the results page opens and stroop_results is absent, is not
\* parseable JSON, or parses to a value that is not a list of results, the
\* page redirects to the entry page, computes and shows no summary and
\* raises no error.
C11_MalformedSnapshotRedirects ==
  (/\ JustLoaded
   /\ \/ storage.stroop_results = NoItem
      \/ \E i \in storage.stroop_results : ~IsListOfResults(i))
  => (route = "home" /\ summary = NoSummary /\ ~thrown)

\* the part of C11 the code keeps: an absent item, a text that is not JSON and
\* a JSON value that is not a list all redirect
C11_NotAListRedirects ==
  (/\ JustLoaded
   /\ \/ storage.stroop_results = NoItem
      \/ \E i \in storage.stroop_results : i.text # "json")
  => (route = "home" /\ summary = NoSummary /\ ~thrown)

\* C12: when the results page opens with a results snapshot stored and no
\* stored session id, it redirects to the entry page and shows no summary.
C12_MissingSessionIdRedirects ==
  (/\ JustLoaded
   /\ storage.stroop_session_id = NoSession
   /\ storage.stroop_results # NoItem)
  => (route = "home" /\ summary = NoSummary)

(* -------------------------------------------------- claims: aggregation *)
\* the list the stored snapshot parses to
StoredList == (CHOOSE i \in storage.stroop_results : TRUE).value

\* positions of the correct results of the given congruency
CorrectOf(list, congruent) ==
  {k \in 1..Len(list) : list[k].is_correct /\ list[k].is_congruent = congruent}

\* sum of the reaction times at the positions I
TimeSum(list, I) ==
  LET RECURSIVE Sum(_)
      Sum(J) == IF J = {} THEN 0
                ELSE LET k == CHOOSE j \in J : TRUE
                     IN  list[k].reaction_time_ms + Sum(J \ {k})
  IN  Sum(I)

\* x is the arithmetic mean of the reaction times at the positions I, and 0
\* when there are none
IsMeanOver(x, list, I) ==
  /\ ~IsNaN(x)
  /\ IF I = {} THEN x = Num(0)
     ELSE x.n * Cardinality(I) = x.d * TimeSum(list, I)

CorrectCount(list) == Cardinality({k \in 1..Len(list) : list[k].is_correct})

\* C14: for a non-empty list, totalTrials is the length of the list,
\* correctTrials the number of results with is_correct true, between 0 and
\* totalTrials, and accuracy is 100 * correctTrials / totalTrials with error
\* trials counted in the denominator; five correct and five incorrect results
\* give 50, an all-correct list gives 100.
C14_TotalsAndAccuracy ==
  \A s \in summary :
    Len(StoredList) > 0 =>
      /\ s.totalTrials = Len(StoredList)
      /\ s.correctTrials = CorrectCount(StoredList)
      /\ 0 <= s.correctTrials /\ s.correctTrials <= s.totalTrials
      /\ ~IsNaN(s.accuracy)
      /\ s.accuracy.n * s.totalTrials = s.accuracy.d * 100 * s.correctTrials
      /\ (CorrectCount(StoredList) = 5 /\ Len(StoredList) = 10)
           => s.accuracy = Num(50)
      /\ CorrectCount(StoredList) = Len(StoredList) => s.accuracy = Num(100)

\* the summary of five correct and five incorrect results
C14_Witness ==
  \E s \in summary :
    /\ StoredList = ScenarioHalfCorrect
    /\ s.totalTrials = 10 /\ s.correctTrials = 5 /\ s.accuracy = Num(50)

\* C15: the empty list gives congruentAvg = 0, incongruentAvg = 0,
\* totalTrials = 0 and a defined accuracy: when the stored snapshot is the
\* empty list, neither the summary nor the rounded value on display is NaN.
C15_EmptyListDefinedAccuracy ==
  \A s \in summary :
    StoredList = <<>> =>
      /\ s.congruentAvg = Num(0)
      /\ s.incongruentAvg = Num(0)
      /\ s.totalTrials = 0
      /\ ~IsNaN(s.accuracy)
      /\ ~IsNaN(MathRound(s.accuracy))

\* the part of C15 the code keeps: both means and the count are 0
C15_EmptyListMeansAreZero ==
  \A s \in summary :
    StoredList = <<>> =>
      /\ s.congruentAvg = Num(0)
      /\ s.incongruentAvg = Num(0)
      /\ s.totalTrials = 0

\* C16: stroopEffect is incongruentAvg - congruentAvg exactly, negative when
\* the difference is negative; ten correct congruent results averaging 400
\* and ten correct incongruent results averaging 550 give 150.
C16_StroopEffectIsDifference ==
  \A s \in summary :
    LET e == s.stroopEffect
        inc == s.incongruentAvg
        con == s.congruentAvg
    IN  /\ ~IsNaN(e)
        /\ e.n * inc.d * con.d = e.d * (inc.n * con.d - con.n * inc.d)
        /\ StoredList = ScenarioEffect150
             => (con = Num(400) /\ inc = Num(550) /\ e = Num(150))

\* a summary whose incongruent mean is below its congruent mean
C16_Witness ==
  \E s \in summary :
    /\ CorrectOf(StoredList, TRUE) # {} /\ CorrectOf(StoredList, FALSE) # {}
    /\ s.stroopEffect.n < 0

CorrectOfWord(list, w, congruent) ==
  {k \in CorrectOf(list, congruent) : list[k].word_text = w}

\* the integer x is q rounded to the nearest integer, a half rounded up
IsRoundOf(x, q) ==
  /\ x.d = 1
  /\ 2 * q.d * x.n <= 2 * q.n + q.d
  /\ 2 * q.n + q.d < 2 * q.d * (x.n + 1)

\* C18: for each category the breakdown's congruent and incongruent means
\* are the means of reaction_time_ms over the correct results with that
\* word_text and that congruency, 0 for an empty subset, difference is the
\* incongruent mean minus the congruent mean, and the results of the other
\* categories do not change the entry.  The oracle of the statistics test
\* holds the same three numbers rounded.
C18_CategoryBreakdown ==
  \A b \in chart : \A w \in ColorKeys :
    LET e == b[w].difference
        inc == b[w].incongruentAvg
        con == b[w].congruentAvg
        ownResults == SelectSeq(StoredList, LAMBDA r : r.word_text = w)
    IN  /\ IsMeanOver(con, StoredList, CorrectOfWord(StoredList, w, TRUE))
        /\ IsMeanOver(inc, StoredList, CorrectOfWord(StoredList, w, FALSE))
        /\ ~IsNaN(e)
        /\ e.n * inc.d * con.d = e.d * (inc.n * con.d - con.n * inc.d)
        /\ b[w] = categoryBreakdown(ownResults)[w]
        /\ \A x \in expectedStats :
             /\ IsRoundOf(x.wordStats[w].congruentMean, con)
             /\ IsRoundOf(x.wordStats[w].incongruentMean, inc)
             /\ IsRoundOf(x.wordStats[w].difference, e)

\* a breakdown, with the oracle computed, of correct results of two
\* categories: one entry has a congruent mean and no incongruent result, so a
\* negative difference, another has the reverse
C18_Witness ==
  /\ expectedStats # {}
  /\ \E b \in chart : \E w1, w2 \in ColorKeys :
       /\ w1 # w2
       /\ CorrectOfWord(StoredList, w1, TRUE) # {}
       /\ CorrectOfWord(StoredList, w1, FALSE) = {}
       /\ b[w1].incongruentAvg = Num(0) /\ b[w1].difference.n < 0
       /\ CorrectOfWord(StoredList, w2, FALSE) # {}
       /\ b[w2].congruentAvg = Num(0) /\ b[w2].difference.n > 0

(* ------------------------------------------------ claims: clear results *)
\* the delete requests sent in this step
NewDeleteRequests == {r \in deleteReq' : ~r.orphan /\ r \notin deleteReq}

\* C19: handleClearResults sends the remote delete only after the user has
\* confirmed.  When the confirmation is dismissed, or no session id is
\* loaded, no delete request is sent, isClearing and the stored snapshot
\* keep their values and the results view stays shown.
C19_DeleteOnlyAfterConfirm ==
  /\ [][(/\ lastCall' = "handleClearResults"
         /\ (confirmAnswer' = "dismissed" \/ resSessionId = NoSession))
        => (/\ NewDeleteRequests = {}
            /\ UNCHANGED <<deleteReq, isClearing, storage, remote>>
            /\ route' = "results"
            /\ summary' = summary /\ summary' # NoSummary)]_vars
  /\ [][NewDeleteRequests # {}
        => (/\ lastCall' = "handleClearResults"
            /\ confirmAnswer' = "accepted"
            /\ resSessionId # NoSession)]_vars

\* the user has just dismissed the confirmation of a session that has rows
C19_Witness ==
  /\ lastCall = "handleClearResults"
  /\ confirmAnswer = "dismissed"
  /\ resSessionId # NoSession
  /\ remote[resSessionId] > 0
  /\ deleteReq = {} /\ ~isClearing
  /\ route = "results" /\ summary # NoSummary

\* C20: the delete of "Clear Results" removes only rows whose session_id is
\* the session id loaded on the results page: every request carries that id,
\* and when it settles the rows of every other session are as before.
C20_DeleteOnlyOwnSession ==
  /\ [][\A r \in NewDeleteRequests :
          r.session_id = resSessionId
          /\ r.session_id = storage.stroop_session_id]_vars
  /\ [][lastCall' = "deleteSettles"
        => \A s \in SessionIds :
             \/ remote'[s] = remote[s]
             \/ /\ remote'[s] = 0
                /\ \E r \in deleteReq \ deleteReq' : r.session_id = s]_vars

\* a delete has just succeeded for the loaded session while another session
\* has rows
C20_Witness ==
  /\ lastCall = "deleteSettles"
  /\ notice = "success"
  /\ resSessionId # NoSession
  /\ remote[resSessionId] = 0
  /\ \E s \in SessionIds : s # resSessionId /\ remote[s] > 0

\* the request that settles in this step was sent by the page now on display
SettlesOnPage ==
  /\ lastCall' = "deleteSettles"
  /\ route = "results"
  /\ \E r \in deleteReq \ deleteReq' : ~r.orphan

\* C21: when the remote delete fails, by an error reply or by a rejected
\* request, the notice shown is the failure notice and not the success
\* notice; whatever the outcome, isClearing is false once the request has
\* settled, and it is set only while a request of the page is pending.
C21_FailureNoticeAndFlagReset ==
  /\ [][SettlesOnPage
        => (/\ lastReply' \in {"error", "rejected"} => notice' = "failed"
            /\ lastReply' = "ok" => notice' = "success"
            /\ ~isClearing')]_vars
  /\ []((isClearing /\ route = "results" /\ resMounted)
          => \E r \in deleteReq : ~r.orphan)

\* a delete request of the page has just been rejected
C21_Witness ==
  /\ lastCall = "deleteSettles"
  /\ lastReply = "rejected"
  /\ notice = "failed"
  /\ route = "results" /\ summary # NoSummary /\ ~isClearing

(* ------------------------------------------------- claims: clear all data *)

\* the step is "Clear All Data" running up to its request
ClearAllDataRuns == lastCall' = "handleClearAllData"

CategoryOf(color) == CHOOSE w \in ColorKeys : COLORS[w] = color

\* C25: every recorded result is correct exactly when the response is the
\* category whose canonical colour is the result's font colour; answering an
\* incongruent trial with the printed word is recorded as incorrect.
C25_CorrectIffResponseNamesFontColor ==
  \A i \in 1..Len(results) :
    LET r == results[i] IN
      /\ r.is_correct <=> r.user_response = CategoryOf(r.font_color)
      /\ (COLORS[r.word_text] # r.font_color /\ r.user_response = r.word_text)
           => ~r.is_correct

C25_Witness ==
  /\ Len(results) > 0
  /\ COLORS[results[1].word_text] # results[1].font_color
  /\ results[1].user_response = results[1].word_text
  /\ ~results[1].is_correct

\* C26: a trial, and a result recorded from it, is congruent exactly when the
\* canonical colour of its word is its font colour, and an incongruent font
\* colour is the canonical colour of another category.
C26_CongruentIffWordColourIsFontColour ==
  /\ \A k \in 1..Len(trials) :
       LET t == trials[k] IN
         /\ t.isCongruent <=> COLORS[t.wordText] = t.fontColor
         /\ ~t.isCongruent =>
              \E w \in ColorKeys \ {t.wordText} : t.fontColor = COLORS[w]
  /\ \A i \in 1..Len(results) :
       LET r == results[i] IN
         /\ r.is_congruent <=> COLORS[r.word_text] = r.font_color
         /\ ~r.is_congruent =>
              \E w \in ColorKeys \ {r.word_text} : r.font_color = COLORS[w]

C26_Witness ==
  /\ Len(results) >= 2
  /\ \E i \in 1..Len(results) : ~results[i].is_congruent /\ results[i].is_correct
  /\ \E i \in 1..Len(results) : results[i].is_congruent

\* C27: the sequence a session runs on has 20 trials, 10 of them congruent
\* and 10 incongruent, with identifiers that differ within the sequence.
C27_InstalledSequenceIsBalanced ==
  (sessionId # NoSession /\ mounted /\ route = "experiment") =>
    /\ Len(trials) = TOTAL_TRIALS
    /\ Cardinality({k \in 1..Len(trials) : trials[k].isCongruent}) = 10
    /\ Cardinality({k \in 1..Len(trials) : ~trials[k].isCongruent}) = 10
    /\ \A j, k \in 1..Len(trials) : trials[j].id = trials[k].id => j = k

C27_Witness ==
  /\ lastCall = "handleRestart" /\ sessionId > 1 /\ Len(trials) > 0

\* C30: the result list changes only by an accepted response, which appends
\* one result behind the unchanged earlier ones, or by a restart; timers and
\* insert callbacks leave it alone.
C30_ResultsAppendOnly ==
  [][results' # results =>
       \/ lastCall' = "handleRestart"
       \/ /\ lastCall' = "handleResponse"
          /\ Len(results') = Len(results) + 1
          /\ SubSeq(results', 1, Len(results)) = results]_vars

C30_Witness ==
  /\ lastCall = "insertCallback" /\ Len(results) >= 2

(* ------------------------------------------------------- claims: timing *)

\* C28: every recorded result has a whole, non-negative reaction time, also
\* when the clock read at the response lies before the stored onset.
C28_ReactionTimeIsNonNegativeInteger ==
  \A i \in 1..Len(results) : results[i].reaction_time_ms \in Nat

\* a response was recorded while the clock stood before the onset
C28_Witness ==
  /\ lastCall = "handleResponse" /\ Len(results) = 1
  /\ now < startTime
  /\ results[1].reaction_time_ms = 0

\* C29: the onset an accepted response is timed from was captured for the
\* trial being answered, in the session being run: not for an earlier trial
\* and not before the latest restart.
C29_OnsetBelongsToAnsweredTrial ==
  [][(lastCall' = "handleResponse" /\ results' # results)
       => onsetOf = [sid |-> sessionId, idx |-> currentIndex]]_vars

(* ------------------------------------------- claims: two browser contexts *)

\* C23: two sessions in separate browser contexts share no mutable state: a
\* step of the running context leaves the other's session id, trials, index,
\* results, wait flag, stored items and timers as they were; handing over
\* changes neither context; the two session ids differ.
C23_ContextsShareNoState ==
  /\ [][peer'.id = peer.id => peer' = peer]_vars
  /\ [][peer'.id # peer.id =>
          Parked(peer') = TabState /\ TabState' = Parked(peer)]_vars
  /\ [](peer # NoPeer =>
          /\ (sessionId # NoSession => sessionId # peer.sessionId)
          /\ storage.stroop_session_id # peer.storage.stroop_session_id
          /\ \A i \in 1..Len(results) :
               results[i].session_id # peer.storage.stroop_session_id)

\* one context has restarted and answered, the other has completed its run
C23_Witness ==
  /\ peer # NoPeer
  /\ sessionId = 3 /\ Len(results) >= 1
  /\ peer.route = "results" /\ Len(peer.results) = TOTAL_TRIALS
  /\ peer.storage.stroop_results # NoItem /\ storage.stroop_results = NoItem

(* ------------------------------------------------------ claims: try again *)

NothingStored ==
  storage = [stroop_session_id |-> NoSession, stroop_results |-> NoItem]

\* C24: "Try Again" removes both stored items and goes to the entry page;
\* while nothing is stored, the results page and the experiment page send
\* the user back there; the session it ended never returns as the stored
\* session, and no result of it is in a list that is run or summarised later.
C24_TryAgainEndsTheSession ==
  /\ [][lastCall' = "resultsHandleRestart" =>
          NothingStored' /\ route' = "home"]_vars
  /\ [][(NothingStored /\ lastCall' \in {"mountEffect", "resultsLoadEffect"})
          => /\ route' = "home"
             /\ summary' = NoSummary /\ trials' = <<>>]_vars
  /\ [](storage.stroop_session_id \notin retired)
  /\ [](route = "experiment" =>
          /\ sessionId \notin retired
          /\ \A k \in 1..Len(results) : results[k].session_id \notin retired)
  /\ []((route = "results" /\ summary # NoSummary) =>
          /\ storage.stroop_results # NoItem
          /\ \A i \in storage.stroop_results :
               /\ summary = {calculateSummary(i.value)}
               /\ \A k \in 1..Len(i.value) :
                    i.value[k].session_id \notin retired)

\* after a "Try Again", a later session has been run and is summarised
C24_Witness ==
  /\ retired # {} /\ route = "results" /\ summary # NoSummary
  /\ \E i \in storage.stroop_results : Len(i.value) = TOTAL_TRIALS

(* ------------------------------------------------- claims: completion *)

\* the step is a response that handleResponse accepts
AcceptedResponse == lastCall' = "handleResponse" /\ results' # results

\* the timer the step has scheduled, if any
Scheduled == IF Len(timers') > Len(timers) THEN {Last(timers')} ELSE {}

\* C31: an accepted response takes the completion branch (the results are
\* stored and the navigation is scheduled) exactly when it answers the last
\* trial of the sequence; an earlier one schedules the next index instead,
\* and the last one schedules no further index.
C31_CompletionExactlyAtLastTrial ==
  [][AcceptedResponse =>
       /\ (\E t \in Scheduled : t.kind = "navigate")
            <=> currentIndex = Len(trials) - 1
       /\ (\E t \in Scheduled : t.kind = "advance")
            <=> currentIndex < Len(trials) - 1
       /\ currentIndex < Len(trials) - 1 => storage' = storage
       /\ currentIndex = Len(trials) - 1 =>
            storage'.stroop_results = {JSONstringify(results')}]_vars

\* the last trial of the sequence has been answered
C31_Witness ==
  /\ lastCall = "handleResponse" /\ currentIndex = Len(trials) - 1
  /\ Len(trials) > 0 /\ isWaiting
  /\ timers # <<>> /\ Last(timers).kind = "navigate"

\* C32: when the results view has loaded a stored snapshot, every result of
\* it carries the stored session id, the one "Clear Results" deletes by.
C32_SnapshotBelongsToStoredSession ==
  (lastCall = "resultsLoadEffect" /\ route = "results" /\ summary # NoSummary)
    => \A i \in storage.stroop_results :
         \A k \in 1..Len(i.value) :
           /\ i.value[k].session_id = storage.stroop_session_id
           /\ i.value[k].session_id = resSessionId

\* C33: on the experiment page a timer is pending exactly while isWaiting
\* is true, and never more than one.
C33_TimerPendingIffWaiting ==
  (route = "experiment" /\ mounted) =>
    /\ timers # <<>> <=> isWaiting
    /\ Len(timers) <= 1

(* ------------------------------------------------- claims: remote inserts *)

\* the columns of stroop_results a row has to supply, supabase-schema.sql 7-13
\* (id and created_at have defaults)
RequiredColumns ==
  {"session_id", "word_text", "font_color", "is_congruent",
   "reaction_time_ms", "user_response", "is_correct"}

\* C34: an accepted response issues one insert, of the result it appended,
\* under the session id the page holds; a rejected one issues none; nothing
\* else issues one; so the inserts issued under the session id equal the
\* results recorded under it, and are at most 20.
C34_OneInsertPerAcceptedResponse ==
  /\ [][AcceptedResponse =>
          /\ issued' = issued + 1
          /\ inFlight' # <<>> /\ Last(inFlight') = Last(results')
          /\ DOMAIN Last(inFlight') = RequiredColumns
          /\ Last(results').session_id = sessionId]_vars
  /\ [][(lastCall' = "handleResponse" /\ results' = results) =>
          (inFlight' = inFlight /\ issued' = issued)]_vars
  /\ [][(issued' # issued \/ inFlight' # inFlight) =>
          (AcceptedResponse \/ (lastCall' = "handleRestart" /\ issued' = 0
                                   /\ results' = <<>> /\ inFlight' = inFlight
                                   /\ sessionId' # sessionId))]_vars
  /\ [](route = "experiment" =>
          /\ issued = Len(results) /\ issued <= TOTAL_TRIALS
          /\ \A k \in 1..Len(results) : results[k].session_id = sessionId)

\* the twentieth insert of a session that followed a restart
C34_Witness ==
  /\ lastCall = "handleResponse" /\ sessionId > 1
  /\ issued = TOTAL_TRIALS /\ Len(results) = TOTAL_TRIALS
  /\ inFlight # <<>> /\ Last(inFlight) = Last(results)

(* ------------------------------------------- claims: displayed statistics *)

\* what the four statistic cards show, part_004 126-156
Displayed(s) ==
  [congruentMean |-> MathRound(s.congruentAvg),
   incongruentMean |-> MathRound(s.incongruentAvg),
   stroopEffect |-> MathRound(s.stroopEffect),
   accuracy |-> MathRound(s.accuracy)]

\* C35: for every non-empty result list the four statistics on display are
\* the values the test oracle computes from the same list, also when the
\* list has no correct congruent or no correct incongruent result.
C35_DisplayEqualsOracle ==
  (route = "results" /\ summary # NoSummary /\ expectedStats # {}) =>
    \A s \in summary, e \in expectedStats, i \in storage.stroop_results :
      Len(i.value) > 0 =>
        \A f \in DOMAIN Displayed(s) : Displayed(s)[f] = e[f]

====
